---- MODULE Spec2Model ----
(***************************************************************************)
(* Model of the FDMS driver-monitoring code base.                          *)
(*                                                                         *)
(*   facial_expression.py  FacialDrowsiness: the features of a landmark    *)
(*                         set, calibrate, infer, get_classification       *)
(*   video_classifier.py   VideoClassifier.classify,                       *)
(*                         VideoClassificationThread                       *)
(*   app.py / camera.py    Camera.get_frame, the timers that feed the      *)
(*                         classification thread, closeEvent               *)
(*   weather.py            the weather condition number                    *)
(*   fuzzy.py              FuzzyInference: construction and __call__       *)
(*   gps_sim.py            the simulated speed                             *)
(*                                                                         *)
(* Real numbers of the program are modelled as exact rationals <<n, d>>    *)
(* in lowest terms with d > 0; NaN and the infinities have d = 0.          *)
(***************************************************************************)
EXTENDS Integers, Sequences, FiniteSets, TLC

VARIABLES
    \* ---- FacialDrowsiness.infer (one call = one window-building pass)
    pc_infer,      \* "idle" | "loop" | "returned"
    images,        \* the frames handed to the call
    stats,         \* <<ears_norm, mars_norm, pucs_norm, moes_norm>>
    idx,           \* position of the for loop (next frame to process)
    feat,          \* locals ear, mar, puc, moe of the last loop body
    smoothed,      \* locals ear_main, mar_main, puc_main, moe_main
    input_data,    \* the window being built
    iref,          \* history: one earlier completed call
                   \*   <<images, stats, window, entry_dirty>>
    entry_dirty,   \* history: the preceding call left smoothed values other
                   \*   than the initial ones when this call was entered
    \* ---- FacialDrowsiness.calibrate
    pc_calib,      \* "idle" | "loop" | "returned"
    batch,         \* the calibration images
    cidx,          \* position of the for loop
    kept,          \* <<ears, mars, pucs, moes>>, the four lists
    calib_stats,   \* the value returned
    cref,          \* history: one earlier completed call (batch, stats)
    \* ---- VideoClassifier.classify
    features,      \* the argument: [rows |-> sequence of rows, width |-> columns]
    model_input,   \* the matrix fed to the LSTM session (without batch axis)
    \* ---- CameraWidget / MainWindows / VideoClassificationThread
    frame_buffer,      \* CameraWidget.frame_buffer (one list object)
    n_captured,        \* frames captured so far
    collected_frames,  \* MainWindows.collected_frames: a reference to a list
    thread_frames,     \* VideoClassificationThread.frames: a reference to a list
    runs,              \* positions of the run() executions in flight
    tick_outcome,      \* history: what the last _video_classification tick did
    delivered,         \* the lists handed to _store_frames, in emission order
    timers,            \* the QTimers of the window that are active
    pc_close,          \* "open" | "waiting" (closeEvent in wait()) | "closed"
    \* ---- FacialDrowsiness.run_face_mp on its own
    face_image,        \* the frame handed to run_face_mp
    face_result,       \* <<ear, mar, puc, moe>> returned, <<>> before the call
    \* ---- Weather and the weather argument of MainWindows._fuzzy_inference
    weather_id,        \* Weather.wr['weather'][0]['id']
    passed_weather,    \* <<w>>: w was passed to the fuzzy engine; <<>> before
    \* ---- membership functions of the linguistic variables
    mf_variable,       \* name of the linguistic variable
    mf_x,              \* the crisp input
    mf_values,         \* term -> membership degree, <<>> before the evaluation
    \* ---- FuzzyInference
    rule_file,         \* the rule specification: "unreadable" or a list of records
    pc_init,           \* "start" | "loaded" | "constructed" | "failed"
    rules,             \* the rules handed to FuzzySystem.add_rules
    fs_variables,      \* FuzzySystem._variables, written by set_variable
    calls,             \* caller -> state of its __call__
    fref,              \* history: one earlier completed call <<args, label>>
    \* ---- Camera
    cam,               \* [fake, resize, is_rgb], the settings of the Camera
    cam_read,          \* [success, image], what camera.read() returns
    cam_frame,         \* outcome of get_frame, <<>> before the call
    \* ---- GPSSimulator and the speed argument of MainWindows._fuzzy_inference
    gps_speed,         \* GPSSimulator.speed
    passed_speed       \* <<s>>: s was passed to the fuzzy engine; <<>> before

vars == <<pc_infer, images, stats, idx, feat, smoothed, input_data, iref,
          entry_dirty,
          pc_calib, batch, cidx, kept, calib_stats, cref,
          features, model_input,
          frame_buffer, n_captured, collected_frames, thread_frames, runs,
          tick_outcome, delivered, timers, pc_close,
          face_image, face_result, weather_id, passed_weather,
          mf_variable, mf_x, mf_values,
          rule_file, pc_init, rules, fs_variables, calls, fref,
          cam, cam_read, cam_frame, gps_speed, passed_speed>>

inferVars  == <<pc_infer, images, stats, idx, feat, smoothed, input_data, iref,
               entry_dirty>>
calibVars  == <<pc_calib, batch, cidx, kept, calib_stats, cref>>
classVars  == <<features, model_input>>
threadVars == <<frame_buffer, n_captured, collected_frames, thread_frames,
                runs, tick_outcome, delivered, timers, pc_close>>
faceVars    == <<face_image, face_result>>
weatherVars == <<weather_id, passed_weather>>
mfVars      == <<mf_variable, mf_x, mf_values>>
fuzzyVars   == <<rule_file, pc_init, rules, fs_variables, calls, fref>>
cameraVars  == <<cam, cam_read, cam_frame>>
gpsVars     == <<gps_speed, passed_speed>>
lateVars    == <<cameraVars, gpsVars>>
restVars    == <<faceVars, weatherVars, mfVars, fuzzyVars, lateVars>>

----------------------------------------------------------------------------
(* Bounds of the model *)

MaxFrames == 4      \* longest frame sequence handed to infer
MaxRepeatFrames == 2   \* the same, where calls are compared with earlier calls
MaxBatch == 3       \* longest calibration batch
MaxRows == 202      \* longest feature matrix handed to classify
MaxCaptures == 402  \* camera frames captured in one behaviour
SqrtScale == 100    \* square roots are rounded down to 1/SqrtScale

----------------------------------------------------------------------------
(* Exact rational arithmetic *)

Abs(n) == IF n < 0 THEN -n ELSE n

RECURSIVE GCD(_, _)
GCD(a, b) == IF b = 0 THEN a ELSE GCD(b, a % b)

\* The IEEE values that are not numbers of the line: NaN is <<0, 0>>,
\* +inf is <<1, 0>> and -inf is <<-1, 0>>.
NaN == <<0, 0>>

Sign(n) == IF n < 0 THEN -1 ELSE IF n > 0 THEN 1 ELSE 0

Rat(n, d) ==
    IF d = 0 THEN <<Sign(n), 0>>
    ELSE LET g == GCD(Abs(n), Abs(d))
             s == IF d < 0 THEN -1 ELSE 1
         IN  <<(s * n) \div g, (s * d) \div g>>

IsNaN(r) == r = NaN
IsInf(r) == r[2] = 0 /\ r[1] # 0

RNeg(a) == <<-a[1], a[2]>>

RAdd(a, b) ==
    IF IsInf(a) /\ IsInf(b)
    THEN (IF a = b THEN a ELSE NaN)
    ELSE Rat(a[1] * b[2] + b[1] * a[2], a[2] * b[2])

RSub(a, b) == RAdd(a, RNeg(b))

RMul(a, b) == Rat(a[1] * b[1], a[2] * b[2])

\* x / 0 is +inf or -inf by the sign of x, 0 / 0 is NaN.
RDiv(a, b) ==
    LET sb == IF b[1] < 0 THEN -1 ELSE 1
    IN  Rat(a[1] * b[2] * sb, a[2] * Abs(b[1]))

RLe(a, b) ==
    /\ ~IsNaN(a)
    /\ ~IsNaN(b)
    /\ IF IsInf(a) /\ IsInf(b) THEN a[1] <= b[1]
       ELSE a[1] * b[2] <= b[1] * a[2]

RLt(a, b) == RLe(a, b) /\ a # b

Zero == Rat(0, 1)
One == Rat(1, 1)

----------------------------------------------------------------------------
(* FacialDrowsiness.run_face_mp *)

\* The reserved "no face" value of every feature.
Sentinel == Rat(-1000, 1)

SentinelState == <<Sentinel, Sentinel, Sentinel, Sentinel>>

\* A frame is <<>> when the detector finds no landmarks, otherwise the
\* triple <<ear, mar, puc>> the geometric features evaluate to on its
\* landmarks.
NoLandmarks == <<>>

FaceA == <<Rat(3, 10), Rat(1, 2), Rat(2, 5)>>
FaceB == <<Rat(1, 5), Rat(4, 5), Rat(1, 2)>>

FaceFrames == {FaceA, FaceB}
Frames == {NoLandmarks} \cup FaceFrames

\* ear, mar, puc, moe as returned by run_face_mp.
RunFaceMpEarOnly(image) ==
    IF image # NoLandmarks
    THEN <<image[1], image[2], image[3], RDiv(image[2], image[1])>>
    ELSE <<Sentinel, Zero, Zero, Zero>>

RunFaceMp(image) ==
    IF image # NoLandmarks
    THEN <<image[1], image[2], image[3], RDiv(image[2], image[1])>>
    ELSE SentinelState

----------------------------------------------------------------------------
(* FacialDrowsiness.infer *)

\* Calibration stats handed to infer: four <<mean, std>> pairs.
StatsA == <<<<Rat(3, 10), Rat(1, 10)>>, <<Rat(1, 2), Rat(1, 5)>>,
            <<Rat(2, 5), Rat(1, 10)>>, <<Rat(2, 1), Rat(1, 2)>>>>
StatsB == <<<<Rat(1, 4), Rat(1, 20)>>, <<Rat(3, 5), Rat(1, 10)>>,
            <<Rat(1, 2), Rat(1, 4)>>, <<Rat(3, 1), Rat(1, 1)>>>>

StatsSet == {StatsA, StatsB}

decay == Rat(9, 10)

\* ear_main = 0 ... moe_main = 0 at the top of infer.
InitialSmoothedCarried == smoothed

InitialSmoothed == <<Zero, Zero, Zero, Zero>>

\* (x - norm[0]) / norm[1]
Normalize(x, norm) == RDiv(RSub(x, norm[1]), norm[2])

NormalizeAll(f, st) == [i \in 1..4 |-> Normalize(f[i], st[i])]

\* x_main*decay + (1-decay)*x
BlendNoComplement(main, x) == RAdd(RMul(main, decay), RMul(decay, x))

Blend(main, x) == RAdd(RMul(main, decay), RMul(RSub(One, decay), x))

\* The branch on ear_main == -1000 of a frame with a face.
SmoothUpdateAlwaysBlend(main, x) == [i \in 1..4 |-> Blend(main[i], x[i])]

SmoothUpdate(main, x) ==
    IF main[1] = Sentinel
    THEN x
    ELSE [i \in 1..4 |-> Blend(main[i], x[i])]

\* The else branch of a frame without a face.
NoFaceSmoothedKept == smoothed

NoFaceSmoothed == SentinelState

\* input_data.append([ear_main, mar_main, puc_main, moe_main])
AppendSnapshotFacesOnly(data, snap) ==
    IF snap = SentinelState THEN data ELSE Append(data, snap)

AppendSnapshot(data, snap) == Append(data, snap)

SeqsUpTo(S, n) == UNION {[1..k -> S] : k \in 0..n}

NoRef == <<>>

\* infer is called with at most n frames.
InferCallOf(n) ==
    /\ pc_infer \in {"idle", "returned"}
    /\ \E im \in SeqsUpTo(Frames, n), st \in StatsSet :
          /\ images' = im
          /\ stats' = st
    /\ smoothed' = InitialSmoothed
    /\ feat' = <<>>
    /\ input_data' = <<>>
    /\ idx' = 1
    /\ pc_infer' = "loop"
    /\ entry_dirty' = (smoothed # <<Zero, Zero, Zero, Zero>>)
    /\ UNCHANGED iref
    /\ UNCHANGED <<calibVars, classVars, threadVars, restVars>>

InferCall == InferCallOf(MaxFrames)

InferCallRepeat == InferCallOf(MaxRepeatFrames)

\* One iteration of "for image in images".
InferFrame ==
    /\ pc_infer = "loop"
    /\ idx <= Len(images)
    /\ LET raw == RunFaceMp(images[idx])
           f == IF raw[1] # Sentinel THEN NormalizeAll(raw, stats) ELSE raw
           m == IF raw[1] # Sentinel THEN SmoothUpdate(smoothed, f)
                                     ELSE NoFaceSmoothed
       IN  /\ feat' = f
           /\ smoothed' = m
           /\ input_data' = AppendSnapshot(input_data, m)
    /\ idx' = idx + 1
    /\ UNCHANGED <<pc_infer, images, stats, iref, entry_dirty>>
    /\ UNCHANGED <<calibVars, classVars, threadVars, restVars>>

\* The loop is exhausted: the window goes to get_classification and the
\* call returns.
InferReturn ==
    /\ pc_infer = "loop"
    /\ idx > Len(images)
    /\ pc_infer' = "returned"
    /\ UNCHANGED <<images, stats, idx, feat, smoothed, input_data, iref,
                   entry_dirty>>
    /\ UNCHANGED <<calibVars, classVars, threadVars, restVars>>

\* History only: keep the call that has just returned for comparison with
\* later calls.
InferRemember ==
    /\ pc_infer = "returned"
    /\ iref = NoRef
    /\ iref' = <<images, stats, input_data, entry_dirty>>
    /\ UNCHANGED <<pc_infer, images, stats, idx, feat, smoothed, input_data,
                   entry_dirty>>
    /\ UNCHANGED <<calibVars, classVars, threadVars, restVars>>

InitInfer ==
    /\ pc_infer = "idle"
    /\ images = <<>>
    /\ stats = StatsA
    /\ idx = 1
    /\ feat = <<>>
    /\ smoothed = <<Zero, Zero, Zero, Zero>>
    /\ input_data = <<>>
    /\ iref = NoRef
    /\ entry_dirty = FALSE

----------------------------------------------------------------------------
(* States of the parts a specification leaves alone *)

NoStats == <<>>

CalibIdle ==
    /\ pc_calib = "idle"
    /\ batch = <<>>
    /\ cidx = 1
    /\ kept = <<<<>>, <<>>, <<>>, <<>>>>
    /\ calib_stats = NoStats
    /\ cref = NoRef

NoMatrix == [rows |-> <<>>, width |-> 0]

ClassIdle ==
    /\ features = NoMatrix
    /\ model_input = NoMatrix

\* The reference to the empty list an object was constructed with.
OwnList == <<"own">>

\* The QTimers MainWindows.__init__ and CameraWidget.__init__ start.
StartedTimers == {"map", "camera", "weather", "fuzzy", "video_classifier"}

ThreadIdle ==
    /\ frame_buffer = <<>>
    /\ n_captured = 0
    /\ collected_frames = OwnList
    /\ thread_frames = OwnList
    /\ runs = <<>>
    /\ tick_outcome = "none"
    /\ delivered = <<>>
    /\ timers = StartedTimers
    /\ pc_close = "open"

FaceIdle ==
    /\ face_image = <<>>
    /\ face_result = <<>>

WeatherIdle ==
    /\ weather_id = 800
    /\ passed_weather = <<>>

MfIdle ==
    /\ mf_variable = "none"
    /\ mf_x = <<0, 1>>
    /\ mf_values = <<>>

FuzzyIdle ==
    /\ rule_file = <<>>
    /\ pc_init = "start"
    /\ rules = <<>>
    /\ fs_variables = <<>>
    /\ calls = <<>>
    /\ fref = <<>>

CameraIdle ==
    /\ cam = [fake |-> TRUE, resize |-> TRUE, is_rgb |-> TRUE]
    /\ cam_read = [success |-> TRUE,
                   image |-> [pixels |-> "camera", resized |-> FALSE,
                              rgb |-> FALSE]]
    /\ cam_frame = <<>>

GpsIdle ==
    /\ gps_speed = <<40, 1>>
    /\ passed_speed = <<>>

LateIdle == CameraIdle /\ GpsIdle

RestIdle == FaceIdle /\ WeatherIdle /\ MfIdle /\ FuzzyIdle /\ LateIdle

----------------------------------------------------------------------------
(* Specification of the window-building pass *)

InitInferSpec == InitInfer /\ CalibIdle /\ ClassIdle /\ ThreadIdle /\ RestIdle

NextInfer == InferCall \/ InferFrame \/ InferReturn

SpecInfer == InitInferSpec /\ [][NextInfer]_vars

\* The same pass, called repeatedly on one instance, with one earlier call
\* remembered.
NextInferRepeat == InferCallRepeat \/ InferFrame \/ InferReturn \/ InferRemember

SpecInferRepeat == InitInferSpec /\ [][NextInferRepeat]_vars

\* A step of the loop of infer on the frame images[idx].
InferStep == pc_infer = "loop" /\ idx <= Len(images) /\ idx' = idx + 1

\* v is (raw - mean)/std, stated on the numerators and denominators.
IsNormalizedOf(v, raw, norm) ==
    v[1] * norm[2][1] * raw[2] * norm[1][2]
        = (raw[1] * norm[1][2] - norm[1][1] * raw[2]) * v[2] * norm[2][2]

\* new is 0.9*prev + 0.1*x, stated on the numerators and denominators.
IsBlendOf(new, prev, x) ==
    10 * new[1] * prev[2] * x[2] = new[2] * (9 * prev[1] * x[2] + x[1] * prev[2])

RMin(a, b) == IF RLe(a, b) THEN a ELSE b
RMax(a, b) == IF RLe(a, b) THEN b ELSE a

\* C1: a loop step on a frame without a face sets all four smoothed
\* features to -1000 and appends exactly that all-sentinel snapshot to the
\* window, whatever the smoothed state was before the step.
C1_NoFaceResets ==
    [][(InferStep /\ images[idx] = NoLandmarks)
          => /\ \A i \in 1..4 : smoothed'[i] = Rat(-1000, 1)
             /\ input_data' = Append(input_data, smoothed')]_vars

\* A no-face frame was processed right after a frame with a face: the
\* previous snapshot is not the sentinel, the last one is.
C1_Witness ==
    /\ pc_infer = "loop"
    /\ idx >= 3
    /\ images[idx - 1] = NoLandmarks
    /\ images[idx - 2] # NoLandmarks
    /\ Len(input_data) = idx - 1
    /\ input_data[idx - 2] # SentinelState
    /\ input_data[idx - 1] = SentinelState

\* C2: a loop step on a frame with a face that follows a no-face frame
\* leaves the smoothed state equal to the frame's normalized feature
\* vector, (raw - mean)/std per feature, with no blending.
C2_FirstValidAfterReset ==
    [][(/\ InferStep
        /\ idx >= 2
        /\ images[idx - 1] = NoLandmarks
        /\ images[idx] # NoLandmarks)
          => \A i \in 1..4 :
                /\ smoothed'[i] = feat'[i]
                /\ IsNormalizedOf(smoothed'[i], RunFaceMp(images[idx])[i],
                                  stats[i])]_vars

\* A frame with a face was processed right after a no-face frame.
C2_Witness ==
    /\ pc_infer = "loop"
    /\ idx >= 3
    /\ images[idx - 2] = NoLandmarks
    /\ images[idx - 1] # NoLandmarks
    /\ Len(input_data) = idx - 1
    /\ input_data[idx - 2] = SentinelState
    /\ input_data[idx - 1] = feat
    /\ feat # SentinelState

\* C3: a loop step on a frame with a face whose preceding smoothed state is
\* not the sentinel makes every smoothed feature 0.9*previous +
\* 0.1*normalized; the new value lies between the previous value and the
\* normalized value, strictly when the two differ.
C3_BlendBetween ==
    [][(/\ InferStep
        /\ images[idx] # NoLandmarks
        /\ smoothed # SentinelState)
          => \A i \in 1..4 :
                /\ IsNormalizedOf(feat'[i], RunFaceMp(images[idx])[i], stats[i])
                /\ IsBlendOf(smoothed'[i], smoothed[i], feat'[i])
                /\ RLe(RMin(smoothed[i], feat'[i]), smoothed'[i])
                /\ RLe(smoothed'[i], RMax(smoothed[i], feat'[i]))
                /\ smoothed[i] # feat'[i]
                      => /\ RLt(RMin(smoothed[i], feat'[i]), smoothed'[i])
                         /\ RLt(smoothed'[i], RMax(smoothed[i], feat'[i]))
                /\ smoothed[i] = feat'[i] => smoothed'[i] = feat'[i]]_vars

\* Two consecutive frames with a face were processed and the second one
\* moved the smoothed state towards, but not onto, its normalized vector.
C3_Witness ==
    /\ pc_infer = "loop"
    /\ idx >= 3
    /\ images[idx - 2] # NoLandmarks
    /\ images[idx - 1] # NoLandmarks
    /\ Len(input_data) = idx - 1
    /\ \E i \in 1..4 :
          /\ input_data[idx - 1][i] # input_data[idx - 2][i]
          /\ input_data[idx - 1][i] # feat[i]
    /\ \E i \in 1..4 : input_data[idx - 2][i] = feat[i]

\* The window has one snapshot per processed frame.
WindowLength ==
    /\ pc_infer = "loop" => Len(input_data) = idx - 1
    /\ pc_infer = "returned"
          => /\ Len(input_data) = Len(images)
             /\ \A k \in 1..Len(images) :
                   /\ Len(input_data[k]) = 4
                   /\ (images[k] = NoLandmarks) <=> (input_data[k] = SentinelState)

\* A step inside one call keeps every snapshot already in the window.
WindowPrefixKept ==
    pc_infer = "loop"
        => /\ Len(input_data') >= Len(input_data)
           /\ \A k \in 1..Len(input_data) : input_data'[k] = input_data[k]

\* C4: the window built by infer has exactly one 4-feature snapshot per
\* input frame, in frame order, so its length equals the number of frames;
\* a snapshot already appended is never changed by a later frame.
C4_OneSnapshotPerFrame == []WindowLength /\ [][WindowPrefixKept]_vars

\* A call over a mixed sequence (faces and a no-face frame) has returned.
C4_Witness ==
    /\ pc_infer = "returned"
    /\ Len(images) >= 3
    /\ Len(input_data) = Len(images)
    /\ \E k \in 1..Len(images) : images[k] = NoLandmarks
    /\ \E k \in 1..Len(images) : images[k] # NoLandmarks

\* C5: a call that gets the frames and calibration stats of an earlier call
\* on the same instance returns the window that call returned, whatever
\* calls were made in between.
C5_NoCarryOver ==
    (/\ pc_infer = "returned"
     /\ iref # NoRef
     /\ iref[1] = images
     /\ iref[2] = stats)
        => input_data = iref[3]

\* The remembered call was entered with untouched smoothed values, the
\* present one after a call that left other values behind; both start with
\* a frame with a face, which is blended with the initial smoothed state.
C5_Witness ==
    /\ pc_infer = "returned"
    /\ iref # NoRef
    /\ iref[1] = images
    /\ iref[2] = stats
    /\ iref[4] = FALSE
    /\ entry_dirty = TRUE
    /\ Len(images) >= 2
    /\ images[1] # NoLandmarks
    /\ input_data = iref[3]

----------------------------------------------------------------------------
(* FacialDrowsiness.calibrate *)

\* if ear != -1000
KeepFrameAlways(ear) == TRUE

KeepFrame(ear) == ear # Sentinel

RECURSIVE RSum(_)
RSum(xs) == IF Len(xs) = 0 THEN Zero ELSE RAdd(xs[1], RSum(Tail(xs)))

\* numpy mean: the sum over the number of elements; NaN (with a warning,
\* no exception) for an empty array.
CalibMean(xs) == RDiv(RSum(xs), Rat(Len(xs), 1))

RECURSIVE ISqrtIn(_, _, _)
ISqrtIn(lo, hi, n) ==
    IF lo >= hi THEN lo
    ELSE LET mid == (lo + hi + 1) \div 2
         IN  IF mid * mid <= n THEN ISqrtIn(mid, hi, n)
                               ELSE ISqrtIn(lo, mid - 1, n)

\* The non-negative square root, rounded down to a multiple of 1/SqrtScale
\* (the search stays below the root of the largest 32-bit integer).
RSqrt(r) ==
    IF IsNaN(r) \/ r[1] < 0 THEN NaN
    ELSE IF IsInf(r) THEN r
    ELSE LET m == (r[1] * SqrtScale * SqrtScale) \div r[2]
         IN  Rat(ISqrtIn(0, IF m < 46340 THEN m ELSE 46340, m), SqrtScale)

\* The mean of the squared deviations, divided by Len(xs) - ddof.
MeanSquaredDeviation(xs, ddof) ==
    LET mu == CalibMean(xs)
        sq == [k \in 1..Len(xs) |-> RMul(RSub(xs[k], mu), RSub(xs[k], mu))]
    IN  RDiv(RSum(sq), Rat(Len(xs) - ddof, 1))

\* numpy std with its default ddof = 0: sqrt(mean(abs(x - x.mean())**2)).
CalibStdSample(xs) == RSqrt(MeanSquaredDeviation(xs, 1))

CalibStd(xs) == RSqrt(MeanSquaredDeviation(xs, 0))

CalibCall ==
    /\ pc_calib \in {"idle", "returned"}
    /\ \E im \in SeqsUpTo(Frames, MaxBatch) : batch' = im
    /\ kept' = <<<<>>, <<>>, <<>>, <<>>>>
    /\ cidx' = 1
    /\ calib_stats' = NoStats
    /\ pc_calib' = "loop"
    /\ UNCHANGED cref
    /\ UNCHANGED <<inferVars, classVars, threadVars, restVars>>

\* One iteration of "for img in images".
CalibFrame ==
    /\ pc_calib = "loop"
    /\ cidx <= Len(batch)
    /\ LET raw == RunFaceMp(batch[cidx])
       IN  kept' = IF KeepFrame(raw[1])
                   THEN [i \in 1..4 |-> Append(kept[i], raw[i])]
                   ELSE kept
    /\ cidx' = cidx + 1
    /\ UNCHANGED <<pc_calib, batch, calib_stats, cref>>
    /\ UNCHANGED <<inferVars, classVars, threadVars, restVars>>

\* The four [mean, std] pairs are computed and returned.
CalibReturn ==
    /\ pc_calib = "loop"
    /\ cidx > Len(batch)
    /\ calib_stats' = [i \in 1..4 |-> <<CalibMean(kept[i]), CalibStd(kept[i])>>]
    /\ pc_calib' = "returned"
    /\ UNCHANGED <<batch, cidx, kept, cref>>
    /\ UNCHANGED <<inferVars, classVars, threadVars, restVars>>

\* History only: keep the call that has just returned for comparison with
\* later calls.
CalibRemember ==
    /\ pc_calib = "returned"
    /\ cref = NoRef
    /\ cref' = <<batch, calib_stats>>
    /\ UNCHANGED <<pc_calib, batch, cidx, kept, calib_stats>>
    /\ UNCHANGED <<inferVars, classVars, threadVars, restVars>>

InferIdle == InitInfer

InitCalibSpec == InferIdle /\ CalibIdle /\ ClassIdle /\ ThreadIdle /\ RestIdle

NextCalib == CalibCall \/ CalibFrame \/ CalibReturn \/ CalibRemember

SpecCalib == InitCalibSpec /\ [][NextCalib]_vars

IsFace(image) == image # NoLandmarks

\* The values of feature i over the frames of b on which a face is found.
ValidValues(b, i) ==
    LET faces == SelectSeq(b, IsFace)
    IN  [k \in 1..Len(faces) |-> RunFaceMp(faces[k])[i]]

\* C8: no-face frames never enter a mean or a standard deviation: two
\* calibration batches that differ only in no-face frames, inserted or
\* removed at any positions, give the same four (mean, std) pairs, and none
\* of the retained values is the sentinel.
C8_NoFaceFramesIgnored ==
    /\ pc_calib = "returned"
          => \A i \in 1..4 : \A k \in 1..Len(kept[i]) : kept[i][k] # Rat(-1000, 1)
    /\ (/\ pc_calib = "returned"
        /\ cref # NoRef
        /\ SelectSeq(batch, IsFace) = SelectSeq(cref[1], IsFace))
          => calib_stats = cref[2]

\* The present batch is the remembered one with no-face frames inserted or
\* removed, and both hold a face.
C8_Witness ==
    /\ pc_calib = "returned"
    /\ cref # NoRef
    /\ batch # cref[1]
    /\ Len(batch) # Len(cref[1])
    /\ SelectSeq(batch, IsFace) = SelectSeq(cref[1], IsFace)
    /\ Len(SelectSeq(batch, IsFace)) >= 2
    /\ calib_stats = cref[2]

\* C9: when no image of the batch yields a valid feature vector (empty
\* batch or only no-face frames), calibrate does not return calibration
\* stats.
C9_FailsWithoutValidFrame ==
    ~(/\ pc_calib = "returned"
      /\ \A k \in 1..Len(batch) : batch[k] = NoLandmarks)

\* v is the population variance of xs: (n*sum(x^2) - sum(x)^2) / n^2.
PopulationVariance(xs) ==
    LET n == Rat(Len(xs), 1)
        sumsq == RSum([k \in 1..Len(xs) |-> RMul(xs[k], xs[k])])
        sum == RSum(xs)
    IN  RDiv(RSub(RMul(n, sumsq), RMul(sum, sum)), RMul(n, n))

\* C10: for a batch with at least one valid frame every returned std is
\* >= 0, every mean lies between the minimum and the maximum of its feature
\* over the valid frames, and the std is the population standard deviation
\* of the retained values (to the resolution of the square root).
C10_MeanAndStd ==
    (/\ pc_calib = "returned"
     /\ \E k \in 1..Len(batch) : batch[k] # NoLandmarks)
        => \A i \in 1..4 :
              LET xs == ValidValues(batch, i)
                  mean == calib_stats[i][1]
                  std == calib_stats[i][2]
                  next == RAdd(std, Rat(1, SqrtScale))
              IN  /\ RLe(Zero, std)
                  /\ \E k \in 1..Len(xs) : RLe(xs[k], mean)
                  /\ \E k \in 1..Len(xs) : RLe(mean, xs[k])
                  /\ RLe(RMul(std, std), PopulationVariance(xs))
                  /\ RLt(PopulationVariance(xs), RMul(next, next))

\* A batch with two different faces and a no-face frame has been
\* calibrated: the ear values differ, so the ear std is positive.
C10_Witness ==
    /\ pc_calib = "returned"
    /\ \E k \in 1..Len(batch) : batch[k] = NoLandmarks
    /\ \E j, k \in 1..Len(batch) :
          /\ batch[j] # NoLandmarks
          /\ batch[k] # NoLandmarks
          /\ batch[j] # batch[k]
    /\ RLt(Zero, calib_stats[1][2])
    /\ RLt(ValidValues(batch, 1)[1], calib_stats[1][1])
          \/ RLt(calib_stats[1][1], ValidValues(batch, 1)[1])

----------------------------------------------------------------------------
(* VideoClassifier.classify *)

\* The number of rows the LSTM session is fed.
TargetLen == 200

ZeroRow(w) == [j \in 1..w |-> 0]

\* features[:200] of a matrix with more than 200 rows
LastRows(rows) == SubSeq(rows, Len(rows) - TargetLen + 1, Len(rows))

FirstRows(rows) == SubSeq(rows, 1, TargetLen)

\* The matrix after "Ensure we have 200 frames, pad if necessary".
PadOrTruncate(f) ==
    IF Len(f.rows) < TargetLen
    THEN [rows |-> f.rows \o [k \in 1..(TargetLen - Len(f.rows)) |-> ZeroRow(f.width)],
          width |-> f.width]
    ELSE IF Len(f.rows) > TargetLen
    THEN [rows |-> FirstRows(f.rows), width |-> f.width]
    ELSE f

\* A feature matrix of n rows and w columns with non-zero entries.
FeatureMatrix(n, w, seed) ==
    [rows |-> [k \in 1..n |-> [j \in 1..w |-> 1 + ((k * seed + j) % 5)]],
     width |-> w]

FeatureInputs ==
    {FeatureMatrix(n, w, seed) : n \in 0..MaxRows, w \in 1..2, seed \in 1..2}

\* classify up to the call of the LSTM session.
Classify ==
    /\ model_input = NoMatrix
    /\ model_input' = PadOrTruncate(features)
    /\ UNCHANGED features
    /\ UNCHANGED <<inferVars, calibVars, threadVars, restVars>>

InitClassifySpec ==
    /\ InferIdle
    /\ CalibIdle
    /\ ThreadIdle
    /\ RestIdle
    /\ features \in FeatureInputs
    /\ model_input = NoMatrix

NextClassify == Classify

SpecClassify == InitClassifySpec /\ [][NextClassify]_vars

\* C6: the matrix fed to the model has exactly 200 rows of the original
\* width; for L < 200 rows 1..L are the input rows and the rest are all
\* zero, for L > 200 the rows are the first 200 input rows, for L = 200 the
\* input is unchanged.
C6_PadOrTruncate ==
    model_input # NoMatrix
        => LET L == Len(features.rows)
           IN  /\ Len(model_input.rows) = 200
               /\ model_input.width = features.width
               /\ \A k \in 1..200 : Len(model_input.rows[k]) = features.width
               /\ \A k \in 1..200 :
                     IF k <= L
                     THEN model_input.rows[k] = features.rows[k]
                     ELSE \A j \in 1..features.width : model_input.rows[k][j] = 0
               /\ L = 200 => model_input = features

\* A non-empty window shorter than the target has been padded.
C6_Witness ==
    /\ model_input # NoMatrix
    /\ Len(features.rows) > 0
    /\ Len(features.rows) < 200
    /\ model_input.rows[Len(features.rows)] = features.rows[Len(features.rows)]
    /\ model_input.rows[200] = ZeroRow(features.width)

----------------------------------------------------------------------------
(* CameraWidget.update_frame, MainWindows._video_classification and        *)
(* VideoClassificationThread                                               *)

\* CameraWidget.frames_to_collect
frames_to_collect == 200

\* The list a reference denotes: the empty list the object was constructed
\* with, the list object of the camera widget's buffer, or the list that
\* emission number ref[2] handed to the slot.
ListOf(ref) ==
    IF ref = OwnList THEN <<>>
    ELSE IF ref = <<"buffer">> THEN frame_buffer
    ELSE delivered[ref[2]]

\* The argument _store_frames receives from emission number k:
\* frames_collected is declared pyqtSignal(list), so the emitted list is
\* converted to a QVariantList and the slot is called with a new list of
\* the same frames.
SlotArgumentByReference(k) == <<"buffer">>

SlotArgument(k) == <<"delivered", k>>

\* len(self.frame_buffer) >= self.frames_to_collect
BufferFullAbove(buf) == Len(buf) > frames_to_collect

BufferFull(buf) == Len(buf) >= frames_to_collect

\* A timer that is active fires only while the GUI thread is not blocked.
Fires(timer) == timer \in timers /\ pc_close # "waiting"

\* QThread.start(): a thread that is already running is left alone.
ThreadStartAlways(rs) == IF Len(rs) < 2 THEN Append(rs, "begin") ELSE rs

ThreadStart(rs) == IF Len(rs) > 0 THEN rs ELSE Append(rs, "begin")

RemoveAt(rs, i) == SubSeq(rs, 1, i - 1) \o SubSeq(rs, i + 1, Len(rs))

\* The camera timer fires: the frame is appended; a full buffer is emitted
\* to _store_frames and then cleared.
UpdateFrame ==
    /\ Fires("camera")
    /\ n_captured < MaxCaptures
    /\ n_captured' = n_captured + 1
    /\ LET buf == Append(frame_buffer, n_captured + 1)
       IN  IF BufferFull(buf)
           THEN /\ delivered' = Append(delivered, buf)
                /\ collected_frames' = SlotArgument(Len(delivered) + 1)
                /\ frame_buffer' = <<>>
           ELSE /\ frame_buffer' = buf
                /\ UNCHANGED <<collected_frames, delivered>>
    /\ UNCHANGED <<thread_frames, runs, tick_outcome, timers, pc_close>>
    /\ UNCHANGED <<inferVars, calibVars, classVars, restVars>>

\* The video classifier timer fires.
VideoClassification ==
    /\ Fires("video_classifier")
    /\ IF Len(ListOf(collected_frames)) = 0
       THEN /\ tick_outcome' = "no_frames"
            /\ UNCHANGED <<thread_frames, runs>>
       ELSE /\ thread_frames' = collected_frames
            /\ runs' = ThreadStart(runs)
            /\ tick_outcome' = IF Len(runs) > 0 THEN "already_running"
                                                ELSE "started"
    /\ UNCHANGED <<frame_buffer, n_captured, collected_frames, delivered,
                   timers, pc_close>>
    /\ UNCHANGED <<inferVars, calibVars, classVars, restVars>>

\* run(): the check of len(self.frames).
RunBegin ==
    /\ \E i \in 1..Len(runs) :
          /\ runs[i] = "begin"
          /\ runs' = IF Len(ListOf(thread_frames)) = 0
                     THEN RemoveAt(runs, i)
                     ELSE [runs EXCEPT ![i] = "extract"]
    /\ UNCHANGED <<frame_buffer, n_captured, collected_frames, thread_frames,
                   tick_outcome, delivered, timers, pc_close>>
    /\ UNCHANGED <<inferVars, calibVars, classVars, restVars>>

\* run(): extract_features has returned.
RunExtract ==
    /\ \E i \in 1..Len(runs) :
          /\ runs[i] = "extract"
          /\ runs' = [runs EXCEPT ![i] = "classify"]
    /\ UNCHANGED <<frame_buffer, n_captured, collected_frames, thread_frames,
                   tick_outcome, delivered, timers, pc_close>>
    /\ UNCHANGED <<inferVars, calibVars, classVars, restVars>>

\* run(): classify has returned, classification_done is emitted and the
\* thread finishes.
RunClassify ==
    /\ \E i \in 1..Len(runs) :
          /\ runs[i] = "classify"
          /\ runs' = RemoveAt(runs, i)
    /\ UNCHANGED <<frame_buffer, n_captured, collected_frames, thread_frames,
                   tick_outcome, delivered, timers, pc_close>>
    /\ UNCHANGED <<inferVars, calibVars, classVars, restVars>>

InitThreadSpec == InferIdle /\ CalibIdle /\ ClassIdle /\ ThreadIdle /\ RestIdle

NextThread ==
    UpdateFrame \/ VideoClassification \/ RunBegin \/ RunExtract \/ RunClassify

SpecThread == InitThreadSpec /\ [][NextThread]_vars

\* C7: under every interleaving of timer ticks and thread steps at most one
\* run of the classification thread (extract_features + classify) is in
\* flight, and a tick that arrives while one is in flight starts no other.
C7_OneClassificationInFlight == Len(runs) <= 1

\* A tick arrived while the thread was extracting or classifying.
C7_Witness ==
    /\ tick_outcome = "already_running"
    /\ Len(runs) = 1
    /\ runs[1] \in {"extract", "classify"}

----------------------------------------------------------------------------
(* Weather.weather_id_to_condition_number and the weather argument of      *)
(* MainWindows._fuzzy_inference                                            *)

OldIdle == InferIdle /\ CalibIdle /\ ClassIdle /\ ThreadIdle /\ LateIdle

MaxWeatherId == 1000   \* weather ids 0..MaxWeatherId are reported

\* config.inclement, config.rainy, config.normal
inclement == {600, 601, 602, 611, 612, 613, 615, 616, 620, 621, 622, 511, 762}

rainy == {500, 501, 502, 503, 504, 511, 520, 521, 522, 531,
          300, 301, 302, 310, 311, 312, 313, 314, 321,
          200, 201, 202, 210, 211, 212, 221, 230, 231, 232}

normal == {801, 802, 803, 804, 800, 701, 711, 721, 731, 741, 751, 761, 762,
           771, 781}

\* if id in inclement ... elif id in rainy ... elif id in normal ... else
WeatherIdToConditionNumberNormalFirst(id) ==
    IF id \in normal THEN 0
    ELSE IF id \in rainy THEN 1
    ELSE IF id \in inclement THEN 2
    ELSE -1

WeatherIdToConditionNumber(id) ==
    IF id \in inclement THEN 2
    ELSE IF id \in rainy THEN 1
    ELSE IF id \in normal THEN 0
    ELSE -1

\* _fuzzy_inference: weather = weather_id_to_condition_number(get_weather_id())
\* is handed to the fuzzy engine as it is.
FuzzyInferenceWeather ==
    /\ passed_weather = <<>>
    /\ passed_weather' = <<WeatherIdToConditionNumber(weather_id)>>
    /\ UNCHANGED weather_id
    /\ UNCHANGED <<inferVars, calibVars, classVars, threadVars, lateVars>>
    /\ UNCHANGED <<faceVars, mfVars, fuzzyVars>>

\* The weather report held when the fuzzy timer fires carries any id.
InitWeatherSpec ==
    /\ OldIdle
    /\ FaceIdle
    /\ MfIdle
    /\ FuzzyIdle
    /\ weather_id \in 0..MaxWeatherId
    /\ passed_weather = <<>>

NextWeather == FuzzyInferenceWeather

SpecWeather == InitWeatherSpec /\ [][NextWeather]_vars

\* C17: every weather value _fuzzy_inference passes to the fuzzy engine is
\* one of 0 (normal), 1 (rainy) or 2 (inclement).
C17_WeatherArgumentInUniverse ==
    passed_weather # <<>> => passed_weather[1] \in {0, 1, 2}

\* C18: the condition number is 2 for an id in inclement, 1 for an id in
\* rainy, 0 for an id in normal and -1 for an id in none of the lists,
\* where an id in several lists (511, 762) gets the most severe category
\* that lists it; the result is always in {-1, 0, 1, 2}.
C18_ConditionNumber ==
    passed_weather # <<>>
        => LET w == passed_weather[1]
               listed == {c \in {0, 1, 2} :
                             \/ c = 2 /\ weather_id \in inclement
                             \/ c = 1 /\ weather_id \in rainy
                             \/ c = 0 /\ weather_id \in normal}
           IN  /\ w \in {-1, 0, 1, 2}
               /\ listed = {} => w = -1
               /\ listed # {} => w \in listed /\ \A c \in listed : c <= w
               /\ weather_id \in {511, 762} => w = 2

\* The id 762 is in inclement and in normal and has been mapped.
C18_Witness ==
    /\ weather_id = 762
    /\ weather_id \in inclement \cap normal
    /\ passed_weather = <<2>>

----------------------------------------------------------------------------
(* FacialDrowsiness.run_face_mp on its own *)

MaxFeatureTenths == 4   \* ear, mar, puc of a frame are 0/10 .. MaxFeatureTenths/10

\* Frames handed to run_face_mp: no landmarks, or the features of a
\* landmark set (ear = 0 for closed eyes included).
FaceInputs ==
    {NoLandmarks} \cup
    {<<Rat(e, 10), Rat(m, 10), Rat(p, 10)>> :
        e \in 0..MaxFeatureTenths, m \in 0..MaxFeatureTenths,
        p \in 0..MaxFeatureTenths}

RunFace ==
    /\ face_result = <<>>
    /\ face_result' = RunFaceMp(face_image)
    /\ UNCHANGED face_image
    /\ UNCHANGED <<inferVars, calibVars, classVars, threadVars, lateVars>>
    /\ UNCHANGED <<weatherVars, mfVars, fuzzyVars>>

InitFaceSpec ==
    /\ OldIdle
    /\ WeatherIdle
    /\ MfIdle
    /\ FuzzyIdle
    /\ face_image \in FaceInputs
    /\ face_result = <<>>

NextFace == RunFace

SpecFace == InitFaceSpec /\ [][NextFace]_vars

\* C20: without landmarks run_face_mp returns -1000 for all four features
\* (it returns, it does not raise); with landmarks none of the four
\* returned features is -1000.
C20_SentinelAllOrNone ==
    face_result # <<>>
        => /\ Len(face_result) = 4
           /\ face_image = NoLandmarks
                 => \A i \in 1..4 : face_result[i] = Rat(-1000, 1)
           /\ face_image # NoLandmarks
                 => \A i \in 1..4 : face_result[i] # Rat(-1000, 1)

\* run_face_mp has returned on a frame without landmarks.
C20_Witness ==
    /\ face_image = NoLandmarks
    /\ face_result = <<Rat(-1000, 1), Rat(-1000, 1), Rat(-1000, 1), Rat(-1000, 1)>>

----------------------------------------------------------------------------
(* FuzzyInference.fuzzy_init: the linguistic variables and their fuzzy     *)
(* sets (simpful FuzzySet, SingletonsSet, AutoTriangle)                    *)

GridDen == 4   \* crisp inputs are multiples of 1/GridDen

Pt(x, y) == [x |-> x, y |-> y]

lv_week_day ==
    [universe |-> <<0, 6>>,
     sets |-> <<[term |-> "weekday", kind |-> "points",
                 points |-> <<Pt(0, 1), Pt(3, 1), Pt(4, 0)>>],
                [term |-> "weekend", kind |-> "points",
                 points |-> <<Pt(3, 0), Pt(4, 1), Pt(6, 1)>>]>>]

lv_day_hour ==
    [universe |-> <<0, 24>>,
     sets |-> <<[term |-> "low", kind |-> "points",
                 points |-> <<Pt(0, 1), Pt(12, 1), Pt(13, 0)>>],
                [term |-> "moderate", kind |-> "points",
                 points |-> <<Pt(13, 0), Pt(14, 1), Pt(21, 1), Pt(22, 0)>>],
                [term |-> "high", kind |-> "points",
                 points |-> <<Pt(12, 0), Pt(13, 1), Pt(14, 0), Pt(21, 0),
                              Pt(22, 1)>>]>>]

lv_weather ==
    [universe |-> <<0, 2>>,
     sets |-> <<[term |-> "normal", kind |-> "singletons",
                 points |-> <<Pt(0, 1)>>],
                [term |-> "rainy", kind |-> "singletons",
                 points |-> <<Pt(1, 1)>>],
                [term |-> "inclement", kind |-> "singletons",
                 points |-> <<Pt(2, 1)>>]>>]

lv_speed ==
    [universe |-> <<0, 120>>,
     sets |-> <<[term |-> "cautious", kind |-> "points",
                 points |-> <<Pt(65, 1), Pt(70, 0)>>],
                [term |-> "elevated", kind |-> "points",
                 points |-> <<Pt(65, 0), Pt(75, 1), Pt(85, 0)>>],
                [term |-> "hazardous", kind |-> "points",
                 points |-> <<Pt(80, 0), Pt(85, 1), Pt(120, 1)>>]>>]

\* AutoTriangle(n_sets, terms, [low, high]): peaks evenly spaced over the
\* universe, the first and the last set with a vertical outer side; a set
\* is Triangular_MF(a, b, c) with a, b, c in points.
AutoTriangle(terms, low, high) ==
    LET n == Len(terms)
        cp(i) == RAdd(Rat(low, 1), Rat((high - low) * (i - 1), n - 1))
    IN  [universe |-> <<low, high>>,
         sets |-> [i \in 1..n |->
                     [term |-> terms[i], kind |-> "triangle",
                      points |-> <<IF i = 1 THEN Rat(low, 1) ELSE cp(i - 1),
                                   cp(i),
                                   IF i = n THEN Rat(high, 1) ELSE cp(i + 1)>>]]]

lv_sleep == AutoTriangle(<<"awake", "drowsy">>, 0, 1)

lv_result ==
    AutoTriangle(<<"very_low", "low", "medium", "high", "very_high">>, 0, 5)

\* Value at v of the line through the neighbouring points p and q.
Lerp(v, p, q) ==
    RAdd(Rat(p.y, 1),
         RDiv(RMul(RSub(v, Rat(p.x, 1)), Rat(q.y - p.y, 1)),
              Rat(q.x - p.x, 1)))

\* FuzzySet(points=...): linear interpolation between neighbouring points,
\* the first and the last ordinate outside them.
PointsValueStep(points, v) ==
    LET n == Len(points)
    IN  IF RLt(v, Rat(points[1].x, 1)) THEN Rat(points[1].y, 1)
        ELSE IF RLt(Rat(points[n].x, 1), v) THEN Rat(points[n].y, 1)
        ELSE LET i == CHOOSE i \in 1..(n - 1) :
                         /\ RLe(Rat(points[i].x, 1), v)
                         /\ RLe(v, Rat(points[i + 1].x, 1))
                         /\ \A j \in 1..(i - 1) :
                                ~RLe(v, Rat(points[j + 1].x, 1))
             IN  Rat(points[i].y, 1)

PointsValue(points, v) ==
    LET n == Len(points)
    IN  IF RLt(v, Rat(points[1].x, 1)) THEN Rat(points[1].y, 1)
        ELSE IF RLt(Rat(points[n].x, 1), v) THEN Rat(points[n].y, 1)
        ELSE LET i == CHOOSE i \in 1..(n - 1) :
                         /\ RLe(Rat(points[i].x, 1), v)
                         /\ RLe(v, Rat(points[i + 1].x, 1))
                         /\ \A j \in 1..(i - 1) :
                                ~RLe(v, Rat(points[j + 1].x, 1))
             IN  Lerp(v, points[i], points[i + 1])

\* SingletonsSet(pairs=...): the ordinate of the pair at v, 0 elsewhere.
SingletonsValue(pairs, v) ==
    IF \E i \in 1..Len(pairs) : v = Rat(pairs[i].x, 1)
    THEN LET i == CHOOSE i \in 1..Len(pairs) : v = Rat(pairs[i].x, 1)
         IN  Rat(pairs[i].y, 1)
    ELSE Zero

\* Triangular_MF(a, b, c), clipped to [0, 1].
TriangularValue(abc, v) ==
    LET a == abc[1]
        b == abc[2]
        c == abc[3]
        raw == IF RLt(v, b)
               THEN IF a # b THEN RDiv(RSub(v, a), RSub(b, a)) ELSE One
               ELSE IF b # c THEN RDiv(RSub(c, v), RSub(c, b)) ELSE One
    IN  RMin(One, RMax(Zero, raw))

\* FuzzySet.get_value
GetValue(fs, v) ==
    IF fs.kind = "points" THEN PointsValue(fs.points, v)
    ELSE IF fs.kind = "singletons" THEN SingletonsValue(fs.points, v)
    ELSE TriangularValue(fs.points, v)

\* LinguisticVariable.get_values: term and membership, in the order of the
\* variable's sets.
GetValues(lv, v) ==
    [i \in 1..Len(lv.sets) |-> <<lv.sets[i].term, GetValue(lv.sets[i], v)>>]

\* FuzzySystem.add_linguistic_variable
LinguisticVariables ==
    [week_day |-> lv_week_day, day_hour |-> lv_day_hour,
     weather |-> lv_weather, speed |-> lv_speed, result |-> lv_result,
     sleep |-> lv_sleep]

PointVariables == {"week_day", "day_hour", "speed"}

\* The crisp values of a variable's universe on the grid.
CrispGrid(name) ==
    LET u == LinguisticVariables[name].universe
    IN  {Rat(k, GridDen) : k \in (u[1] * GridDen)..(u[2] * GridDen)}

Fuzzify ==
    /\ mf_values = <<>>
    /\ mf_values' = GetValues(LinguisticVariables[mf_variable], mf_x)
    /\ UNCHANGED <<mf_variable, mf_x>>
    /\ UNCHANGED <<inferVars, calibVars, classVars, threadVars, lateVars>>
    /\ UNCHANGED <<faceVars, weatherVars, fuzzyVars>>

InitMfSpec ==
    /\ OldIdle
    /\ FaceIdle
    /\ WeatherIdle
    /\ FuzzyIdle
    /\ mf_variable \in PointVariables
    /\ mf_x \in CrispGrid(mf_variable)
    /\ mf_values = <<>>

NextMf == Fuzzify

SpecMf == InitMfSpec /\ [][NextMf]_vars

\* Membership computed for the term named t.
MfOf(t) ==
    LET i == CHOOSE i \in 1..Len(mf_values) : mf_values[i][1] = t
    IN  mf_values[i][2]

\* C19: for a crisp input inside its universe every term of week_day,
\* day_hour and speed has a membership degree in [0,1] that equals the
\* tabulated value at each defining point, is linear between neighbouring
\* defining points and keeps the end values outside them (weekday 1 on
\* 0..3 and 0 at 4; high 0 at 12, 1 at 13, 0 on 14..21, 1 on 22..24;
\* cautious 1 up to 65 and 0 from 70).
C19_PiecewiseLinearMembership ==
    mf_values # <<>>
        => LET sets == LinguisticVariables[mf_variable].sets
               at(n) == mf_x = Rat(n, 1)
               in(a, b) == RLe(Rat(a, 1), mf_x) /\ RLe(mf_x, Rat(b, 1))
           IN  /\ Len(mf_values) = Len(sets)
               /\ \A i \in 1..Len(sets) :
                    LET m == mf_values[i][2]
                        p == sets[i].points
                        n == Len(p)
                    IN  /\ mf_values[i][1] = sets[i].term
                        /\ RLe(Zero, m) /\ RLe(m, One)
                        /\ \A j \in 1..n : at(p[j].x) => m = Rat(p[j].y, 1)
                        /\ \A j \in 1..(n - 1) :
                             in(p[j].x, p[j + 1].x)
                               => RMul(RSub(m, Rat(p[j].y, 1)),
                                       Rat(p[j + 1].x - p[j].x, 1))
                                  = RMul(Rat(p[j + 1].y - p[j].y, 1),
                                         RSub(mf_x, Rat(p[j].x, 1)))
                        /\ RLt(mf_x, Rat(p[1].x, 1)) => m = Rat(p[1].y, 1)
                        /\ RLt(Rat(p[n].x, 1), mf_x) => m = Rat(p[n].y, 1)
               /\ mf_variable = "week_day"
                    => /\ in(0, 3) => MfOf("weekday") = One
                       /\ at(4) => MfOf("weekday") = Zero
               /\ mf_variable = "day_hour"
                    => /\ at(12) => MfOf("high") = Zero
                       /\ at(13) => MfOf("high") = One
                       /\ in(14, 21) => MfOf("high") = Zero
                       /\ in(22, 24) => MfOf("high") = One
               /\ mf_variable = "speed"
                    => /\ in(0, 65) => MfOf("cautious") = One
                       /\ in(70, 120) => MfOf("cautious") = Zero

\* An hour strictly between 12 and 13 has been fuzzified: low and high
\* are strictly between 0 and 1.
C19_Witness ==
    /\ mf_variable = "day_hour"
    /\ mf_values # <<>>
    /\ RLt(Rat(12, 1), mf_x) /\ RLt(mf_x, Rat(13, 1))
    /\ RLt(Zero, MfOf("low")) /\ RLt(MfOf("low"), One)
    /\ RAdd(MfOf("low"), MfOf("high")) = One

----------------------------------------------------------------------------
(* FuzzyInference.__init__: load_rules_from_json_file, then fuzzy_init *)

MaxRules == 2   \* records in the rule file

\* The records a rule file may hold: conditions on speed and sleep (at
\* least one) and, possibly, a result.
RuleDicts ==
    LET keySets == {K \in SUBSET {"speed", "sleep", "result"} :
                       K \cap {"speed", "sleep"} # {}}
        termsOf(k) == IF k = "speed" THEN {"cautious", "hazardous"}
                      ELSE IF k = "sleep" THEN {"awake", "drowsy"}
                      ELSE {"very_low", "low", "medium", "high", "very_high"}
    IN  UNION {{d \in [K -> {"cautious", "hazardous", "awake", "drowsy",
                              "very_low", "low", "medium", "high",
                              "very_high"}] :
                   \A k \in K : d[k] \in termsOf(k)} : K \in keySets}

\* The rule file: missing or unreadable (open raises IOError), not JSON
\* (json.load raises), or a JSON list of records.
RuleFiles ==
    {[status |-> s, records |-> <<>>] : s \in {"unreadable", "malformed"}}
    \cup {[status |-> "ok", records |-> r] : r \in SeqsUpTo(RuleDicts, MaxRules)}

\* The rule built from one record: its conditions joined by AND and the
\* consequent rule_dict.get('result'), which is None without the key.
RuleOf(rule_dict) ==
    [conds |-> [k \in DOMAIN rule_dict \ {"result"} |-> rule_dict[k]],
     result |-> IF "result" \in DOMAIN rule_dict THEN rule_dict["result"]
                ELSE "None"]

\* load_rules_from_json_file
LoadRules ==
    /\ pc_init = "start"
    /\ IF rule_file.status = "unreadable"
       THEN /\ rules' = <<>>
            /\ pc_init' = "loaded"
       ELSE IF rule_file.status = "malformed"
       THEN /\ rules' = rules
            /\ pc_init' = "failed"
       ELSE /\ rules' = [i \in 1..Len(rule_file.records) |->
                            RuleOf(rule_file.records[i])]
            /\ pc_init' = "loaded"
    /\ UNCHANGED <<rule_file, fs_variables, calls, fref>>
    /\ UNCHANGED <<inferVars, calibVars, classVars, threadVars, lateVars>>
    /\ UNCHANGED <<faceVars, weatherVars, mfVars>>

\* fuzzy_init: the variables are added and add_rules stores the rules;
\* the engine exists from here on.
FuzzyInit ==
    /\ pc_init = "loaded"
    /\ pc_init' = "constructed"
    /\ UNCHANGED <<rule_file, rules, fs_variables, calls, fref>>
    /\ UNCHANGED <<inferVars, calibVars, classVars, threadVars, lateVars>>
    /\ UNCHANGED <<faceVars, weatherVars, mfVars>>

InitFuzzyInitSpec ==
    /\ OldIdle
    /\ FaceIdle
    /\ WeatherIdle
    /\ MfIdle
    /\ rule_file \in RuleFiles
    /\ pc_init = "start"
    /\ rules = <<>>
    /\ fs_variables = <<>>
    /\ calls = <<>>
    /\ fref = <<>>

NextFuzzyInit == LoadRules \/ FuzzyInit

SpecFuzzyInit == InitFuzzyInitSpec /\ [][NextFuzzyInit]_vars

\* C15: when the rule specification cannot be read or is empty the
\* construction fails: no constructed engine has an empty rule base.
C15_NoEmptyRuleBase ==
    pc_init = "constructed" => rules # <<>>

\* C16: when a record has no result key the construction fails, and every
\* rule produced by load_rules_from_json_file has the consequent term its
\* record names.
C16_ResultKeyRequired ==
    pc_init \in {"loaded", "constructed"}
        => /\ Len(rules) = Len(rule_file.records)
           /\ \A i \in 1..Len(rules) :
                 /\ "result" \in DOMAIN rule_file.records[i]
                 /\ rules[i].result = rule_file.records[i]["result"]

----------------------------------------------------------------------------
(* FuzzyInference.__call__: set_variable five times, FuzzySystem.inference *)
(* (Mamdani: clipped consequents, union, centre of gravity), then the term *)
(* of result with the greatest membership at the crisp output              *)

subdivisions == 1000     \* integration points of inference()
CentroidScale == 1000    \* the centre of gravity is kept to 1/CentroidScale
LimbBase == 10000        \* large sums are held in limbs, lowest first

RECURSIVE BigOf(_)
BigOf(n) == IF n = 0 THEN <<>> ELSE <<n % LimbBase>> \o BigOf(n \div LimbBase)

RECURSIVE BigScale(_, _, _)
BigScale(a, m, carry) ==
    IF m = 0 THEN <<>>
    ELSE IF a = <<>> THEN BigOf(carry)
    ELSE LET t == a[1] * m + carry
         IN  <<t % LimbBase>> \o BigScale(Tail(a), m, t \div LimbBase)

RECURSIVE BigAdd(_, _, _)
BigAdd(a, b, carry) ==
    IF a = <<>> /\ b = <<>> THEN BigOf(carry)
    ELSE LET x == IF a = <<>> THEN 0 ELSE a[1]
             y == IF b = <<>> THEN 0 ELSE b[1]
             t == x + y + carry
         IN  <<t % LimbBase>>
             \o BigAdd(IF a = <<>> THEN a ELSE Tail(a),
                       IF b = <<>> THEN b ELSE Tail(b), t \div LimbBase)

RECURSIVE BigLe(_, _)
BigLe(a, b) ==
    IF Len(a) # Len(b) THEN Len(a) < Len(b)
    ELSE IF a = <<>> THEN TRUE
    ELSE IF a[Len(a)] # b[Len(b)] THEN a[Len(a)] < b[Len(b)]
    ELSE BigLe(SubSeq(a, 1, Len(a) - 1), SubSeq(b, 1, Len(b) - 1))

\* The greatest q in lo..hi with q * den <= num (den > 0, lo * den <= num).
RECURSIVE BigQuot(_, _, _, _)
BigQuot(num, den, lo, hi) ==
    IF lo = hi THEN lo
    ELSE CHOOSE q \in {IF BigLe(BigScale(den, mid, 0), num)
                       THEN BigQuot(num, den, mid, hi)
                       ELSE BigQuot(num, den, lo, mid - 1) :
                           mid \in {(lo + hi + 1) \div 2}} : TRUE

\* Index of the set of lv named term.
TermIndex(lv, term) ==
    CHOOSE i \in 1..Len(lv.sets) : lv.sets[i].term = term

\* A rule's antecedent: its clauses joined by AND, the minimum of the
\* memberships of the stored crisp values.
Strength(rule, variables) ==
    LET ms == {GetValue(LinguisticVariables[k].sets[
                            TermIndex(LinguisticVariables[k], rule.conds[k])],
                        variables[k]) : k \in DOMAIN rule.conds}
    IN  CHOOSE m \in ms : \A x \in ms : RLe(m, x)

\* cuts_list: per rule, the consequent term and the cut.
Cuts(rs, variables) ==
    [i \in 1..Len(rs) |->
        [term |-> TermIndex(lv_result, rs[i].result),
         cut |-> Strength(rs[i], variables)]]

\* Least common denominator of the cuts.
RECURSIVE CutDen(_)
CutDen(cuts) ==
    IF cuts = <<>> THEN 1
    ELSE LET d == CutDen(Tail(cuts))
             e == cuts[1].cut[2]
         IN  (d * e) \div GCD(d, e)

\* Membership of every result term at every integration point
\* linspace(x0, x1, subdivisions)[k], in units of 1/(subdivisions - 1).
ResultTable ==
    LET u == lv_result.universe
    IN  [j \in 1..Len(lv_result.sets) |->
           [k \in 0..(subdivisions - 1) |->
              LET m == GetValue(lv_result.sets[j],
                                RAdd(Rat(u[1], 1),
                                     Rat((u[2] - u[1]) * k, subdivisions - 1)))
              IN  (m[1] * (subdivisions - 1)) \div m[2]]]

\* The cuts in units of 1/((subdivisions - 1) * den), den their least
\* common denominator.
ScaledCuts(cuts) ==
    [den |-> CutDen(cuts),
     cuts |-> [i \in 1..Len(cuts) |->
                 [term |-> cuts[i].term,
                  cut |-> (cuts[i].cut[1] * (subdivisions - 1) * CutDen(cuts))
                              \div cuts[i].cut[2]]]]

\* keep at integration point k: over the cuts the greatest get_value_cut
\* = min(cut, membership); 0 without a cut.
Keep(sc, k) ==
    LET vs == {0} \cup
              {IF sc.cuts[i].cut <= ResultTable[sc.cuts[i].term][k] * sc.den
               THEN sc.cuts[i].cut
               ELSE ResultTable[sc.cuts[i].term][k] * sc.den :
                   i \in 1..Len(sc.cuts)}
    IN  CHOOSE v \in vs : \A x \in vs : x <= v

\* Sums over the integration points of keep (part 1), of
\* keep * (k \div 100) (part 2) and of keep * (k % 100) (part 3):
\* sum(values) is part 1, sum(weightedvalues) is 100 * part 2 + part 3
\* in units of the step of the integration points.
Sums(sc, part) ==
    LET range[b \in (0..(subdivisions - 1)) \X (0..(subdivisions - 1))] ==
            IF b[1] = b[2]
            THEN Keep(sc, b[1]) * (IF part = 1 THEN 1
                                   ELSE IF part = 2 THEN b[1] \div 100
                                   ELSE b[1] % 100)
            ELSE range[<<b[1], (b[1] + b[2]) \div 2>>]
                 + range[<<(b[1] + b[2]) \div 2 + 1, b[2]>>]
    IN  range[<<0, subdivisions - 1>>]

\* sumwv / sumv in units of 1/CentroidScale above the low end of the
\* universe, s the three sums; CoG = 0 when sumv is 0.
CentroidOfSums(s) ==
    LET u == lv_result.universe
        weighted == BigAdd(BigScale(BigOf(s[2]), 100, 0), BigOf(s[3]), 0)
        num == BigScale(BigScale(weighted, u[2] - u[1], 0), CentroidScale, 0)
        total == BigScale(BigOf(s[1]), subdivisions - 1, 0)
    IN  IF s[1] = 0 THEN 0 - u[1] * CentroidScale
        ELSE BigQuot(num, total, 0, (u[2] - u[1]) * CentroidScale)

\* FuzzySystem.inference()['result'] for the cuts of the rules.
Centroid(cuts) ==
    CHOOSE r \in {Rat(lv_result.universe[1] * CentroidScale + q, CentroidScale) :
                    q \in {CentroidOfSums(s) :
                    s \in {<<Sums(sc, 1), Sums(sc, 2), Sums(sc, 3)>> :
                               sc \in {ScaledCuts(cuts)}}}} : TRUE

MamdaniInference(rs, variables) == Centroid(Cuts(rs, variables))

\* max(d, key=d.get): the first key with the greatest value.
ArgMaxLast(d) ==
    LET i == CHOOSE i \in 1..Len(d) :
                 /\ \A j \in 1..Len(d) : RLe(d[j][2], d[i][2])
                 /\ \A j \in (i + 1)..Len(d) : d[j][2] # d[i][2]
    IN  d[i][1]

ArgMaxFirst(d) ==
    LET i == CHOOSE i \in 1..Len(d) :
                 /\ \A j \in 1..Len(d) : RLe(d[j][2], d[i][2])
                 /\ \A j \in 1..(i - 1) : d[j][2] # d[i][2]
    IN  d[i][1]

\* d = self.result.get_values(r['result']); max(d, key=d.get)
ResultLabelBelow(r) ==
    LET below == {i \in 1..Len(lv_result.sets) :
                     RLe(lv_result.sets[i].points[2], r)}
        i == CHOOSE i \in below : \A j \in below : j <= i
    IN  lv_result.sets[i].term

ResultLabel(r) == ArgMaxFirst(GetValues(lv_result, r))


VarsOf(args) ==
    [day_hour |-> args.hour, week_day |-> args.day, weather |-> args.weather,
     speed |-> args.speed, sleep |-> args.sleep]

\* Rule files the engine is built from in the call specifications.
SampleRuleFiles ==
    {<<[speed |-> "hazardous", result |-> "very_high"],
       [sleep |-> "drowsy", result |-> "high"]>>,
     <<[day_hour |-> "high", weather |-> "inclement", result |-> "very_high"],
       [speed |-> "cautious", sleep |-> "awake", result |-> "very_low"],
       [speed |-> "elevated", result |-> "medium"],
       [speed |-> "elevated", sleep |-> "drowsy", result |-> "high"]>>}

RulesOf(records) == [i \in 1..Len(records) |-> RuleOf(records[i])]

\* Arguments of __call__.
CallInputs ==
    {[hour |-> Rat(h, 1), day |-> Rat(1, 1), weather |-> Rat(w, 1),
      speed |-> Rat(s, 1), sleep |-> Rat(z, 5)] :
        h \in {13}, w \in {0, 2}, s \in {30, 82, 100}, z \in {0, 2, 5}}

\* The arguments whose values make up the store variables.
ArgsOf(variables) ==
    [hour |-> variables.day_hour, day |-> variables.week_day,
     weather |-> variables.weather, speed |-> variables.speed,
     sleep |-> variables.sleep]

\* MamdaniInference for every engine and every store of crisp values,
\* computed once.
InferenceTable ==
    [f \in SampleRuleFiles |->
        [a \in CallInputs |-> MamdaniInference(RulesOf(f), VarsOf(a))]]

\* ResultLabel for every crisp output of InferenceTable, computed once.
LabelTable ==
    [r \in {InferenceTable[f][a] : f \in SampleRuleFiles, a \in CallInputs} |->
        ResultLabel(r)]

\* The order of the five set_variable calls of __call__.
SetOrder == <<"day_hour", "week_day", "weather", "speed", "sleep">>

\* set_variable number calls[c].pc of caller c: the value goes to the
\* engine's one store of crisp values.
SetVariable(c) ==
    /\ calls[c].pc \in 1..5
    /\ LET name == SetOrder[calls[c].pc]
       IN  fs_variables' =
               [k \in DOMAIN fs_variables \cup {name} |->
                   IF k = name THEN VarsOf(calls[c].args)[name]
                   ELSE fs_variables[k]]
    /\ calls' = [calls EXCEPT ![c].pc = @ + 1]
    /\ UNCHANGED <<rule_file, pc_init, rules, fref>>
    /\ UNCHANGED <<inferVars, calibVars, classVars, threadVars, lateVars>>
    /\ UNCHANGED <<faceVars, weatherVars, mfVars>>

\* r = self.fs.inference(): computed from the store as it is now.
Inference(c) ==
    /\ calls[c].pc = 6
    /\ calls' = [calls EXCEPT ![c].pc = 7,
                              ![c].r = InferenceTable[rule_file.records][
                                           ArgsOf(fs_variables)]]
    /\ UNCHANGED <<rule_file, pc_init, rules, fs_variables, fref>>
    /\ UNCHANGED <<inferVars, calibVars, classVars, threadVars, lateVars>>
    /\ UNCHANGED <<faceVars, weatherVars, mfVars>>

\* d = self.result.get_values(r['result']); return max(d, key=d.get)
CallReturn(c) ==
    /\ calls[c].pc = 7
    /\ calls' = [calls EXCEPT ![c].pc = 8,
                              ![c].label = LabelTable[calls[c].r]]
    /\ UNCHANGED <<rule_file, pc_init, rules, fs_variables, fref>>
    /\ UNCHANGED <<inferVars, calibVars, classVars, threadVars, lateVars>>
    /\ UNCHANGED <<faceVars, weatherVars, mfVars>>

\* The engine constructed from one of files, and the callers about to
\* call it with arguments from inputs.
InitCalls(files, callers, inputs) ==
    /\ OldIdle
    /\ FaceIdle
    /\ WeatherIdle
    /\ MfIdle
    /\ \E f \in files :
          /\ rule_file = [status |-> "ok", records |-> f]
          /\ rules = RulesOf(f)
    /\ pc_init = "constructed"
    /\ fs_variables = <<>>
    /\ calls \in [callers -> {[pc |-> 1, args |-> a, r |-> Zero, label |-> ""] :
                                 a \in inputs}]
    /\ fref = <<>>

InitCallSpec == InitCalls(SampleRuleFiles, {1}, CallInputs)

NextCall == \E c \in DOMAIN calls : SetVariable(c) \/ Inference(c) \/ CallReturn(c)

SpecCall == InitCallSpec /\ [][NextCall]_vars


ResultTerms == <<"very_low", "low", "medium", "high", "very_high">>

\* Activation of the result term t for the arguments args: the greatest
\* strength over the rules with consequent t, 0 without such a rule.
ActivationOf(t, args) ==
    LET ss == {Zero} \cup {Strength(rules[i], VarsOf(args)) :
                              i \in {j \in 1..Len(rules) : rules[j].result = t}}
    IN  CHOOSE m \in ss : \A x \in ss : RLe(x, m)

\* The first result term whose activation is greatest.
ArgMaxActivation(args) ==
    LET i == CHOOSE i \in 1..5 :
                 /\ \A j \in 1..5 : RLe(ActivationOf(ResultTerms[j], args),
                                        ActivationOf(ResultTerms[i], args))
                 /\ \A j \in 1..(i - 1) :
                        ActivationOf(ResultTerms[j], args)
                            # ActivationOf(ResultTerms[i], args)
    IN  ResultTerms[i]

\* C11 as stated: __call__ returns the result term whose aggregated rule
\* activation (max over rules of the min of the antecedent memberships) is
\* greatest; no centroid is involved.
C11_LabelIsArgMaxActivation ==
    \A c \in DOMAIN calls :
        calls[c].pc = 8 => calls[c].label = ArgMaxActivation(calls[c].args)

\* C11 amended: __call__ returns the result term whose peak is nearest to
\* the centre of gravity r of the aggregated output set (each consequent
\* clipped at its rule's strength, the union taken, summed over the
\* integration points of [0, 5]); r is 0 when no rule fires.  r is the
\* quotient sum(weightedvalues) / sum(values) to 1/CentroidScale.
C11_LabelFromCentroid ==
    \A c \in DOMAIN calls :
        calls[c].pc = 8
            => \A sc \in {ScaledCuts(Cuts(rules, VarsOf(calls[c].args)))} :
               \A s \in {<<Sums(sc, 1), Sums(sc, 2), Sums(sc, 3)>>} :
               \A q \in {(calls[c].r[1] * CentroidScale) \div calls[c].r[2]} :
               LET r == calls[c].r
                   l == CHOOSE i \in 1..5 : ResultTerms[i] = calls[c].label
                   weighted == BigAdd(BigScale(BigOf(s[2]), 100, 0),
                                      BigOf(s[3]), 0)
                   num == BigScale(BigScale(weighted, 5, 0), CentroidScale, 0)
                   total == BigScale(BigOf(s[1]), subdivisions - 1, 0)
               IN  /\ calls[c].label \in {ResultTerms[i] : i \in 1..5}
                   /\ RLe(Rat(10 * (l - 1) - 5, 8), r)
                   /\ RLe(r, Rat(10 * (l - 1) + 5, 8))
                   /\ s[1] = 0 => r = Zero
                   /\ s[1] > 0 => /\ BigLe(BigScale(total, q, 0), num)
                                  /\ ~BigLe(BigScale(total, q + 1, 0), num)
                   /\ (\A i \in 1..5 : ActivationOf(ResultTerms[i], calls[c].args) = Zero)
                         => s[1] = 0

\* A call has returned high although very_high has the greatest
\* activation: speed 100 fires the very_high rule fully, sleep 2/5 fires
\* the high rule at 2/5, and the centre of gravity lies nearer the peak of
\* high.
C11_Witness ==
    \E c \in DOMAIN calls :
        /\ calls[c].pc = 8
        /\ calls[c].args.speed = Rat(100, 1)
        /\ calls[c].args.sleep = Rat(2, 5)
        /\ ActivationOf("very_high", calls[c].args) = One
        /\ ActivationOf("high", calls[c].args) = Rat(2, 5)
        /\ RLt(Rat(4, 1), calls[c].r) /\ RLt(calls[c].r, Rat(35, 8))
        /\ calls[c].label = "high"


----------------------------------------------------------------------------
(* The last two lines of __call__ on their own: get_values of the crisp   *)
(* output, then max(d, key=d.get)                                          *)

LabelGridDen == 8   \* crisp outputs are multiples of 1/LabelGridDen

\* Crisp outputs of inference(): 0 (no rule fires) and the values from
\* 1/2 to 9/2, between the centres of gravity of very_low and very_high.
ResultGrid ==
    {Zero} \cup {Rat(k, LabelGridDen) :
                    k \in (LabelGridDen \div 2)..((9 * LabelGridDen) \div 2)}

\* max(d, key=d.get) on the memberships just computed; the crisp output
\* and its label are remembered, and a later call gets its crisp output.
PickLabel ==
    /\ mf_variable = "result"
    /\ mf_values # <<>>
    /\ Len(fref) < 2
    /\ fref' = Append(fref, [r |-> mf_x, label |-> ArgMaxFirst(mf_values)])
    /\ IF Len(fref) = 0
       THEN /\ mf_x' \in ResultGrid
            /\ mf_values' = <<>>
       ELSE UNCHANGED <<mf_x, mf_values>>
    /\ UNCHANGED <<mf_variable, rule_file, pc_init, rules, fs_variables, calls>>
    /\ UNCHANGED <<inferVars, calibVars, classVars, threadVars, lateVars>>
    /\ UNCHANGED <<faceVars, weatherVars>>

InitLabelSpec ==
    /\ OldIdle
    /\ FaceIdle
    /\ WeatherIdle
    /\ FuzzyIdle
    /\ mf_variable = "result"
    /\ mf_x \in ResultGrid
    /\ mf_values = <<>>

NextLabel == Fuzzify \/ PickLabel

SpecLabel == InitLabelSpec /\ [][NextLabel]_vars

\* Membership of the i-th term of very_low .. very_high at r: the
\* triangle with peak at 5(i - 1)/4 and feet 5/4 to either side.
PeakMembership(i, r) ==
    LET dist == RSub(r, Rat(5 * (i - 1), 4))
        a == IF RLe(Zero, dist) THEN dist ELSE RNeg(dist)
    IN  RMax(Zero, RSub(One, RDiv(a, Rat(5, 4))))

----------------------------------------------------------------------------
(* Two contexts calling the one engine at the same time *)

ConcurrentInputs ==
    {a \in CallInputs : /\ a.hour = Rat(13, 1)
                        /\ a.weather = Rat(0, 1)
                        /\ a.speed \in {Rat(30, 1), Rat(100, 1)}
                        /\ a.sleep \in {Zero, One}}

InitConcurrentSpec == InitCalls(SampleRuleFiles, {1, 2}, ConcurrentInputs)

SpecConcurrent == InitConcurrentSpec /\ [][NextCall]_vars

\* The label a call with arguments a returns when it runs alone on the
\* engine built from the rule file f.
LabelAlone ==
    [f \in SampleRuleFiles |->
        [a \in ConcurrentInputs |->
            LabelTable[InferenceTable[f][a]]]]

\* C14: under every interleaving of two calls on one engine each call
\* returns the label it returns when run alone.
C14_ConcurrentCallsIndependent ==
    \A c \in DOMAIN calls :
        calls[c].pc = 8
            => calls[c].label = LabelAlone[rule_file.records][calls[c].args]

----------------------------------------------------------------------------
(* FacialDrowsiness.distance, eye_aspect_ratio, eye_feature and            *)
(* mouth_feature on landmark sets.  A landmark is <<x, y, z>>; the pupil   *)
(* circularity of the frame is taken as given.                             *)

MaxDepth == 9   \* the z of a landmark is 0 or MaxDepth

\* The landmark-index pairs: the horizontal pair first, then the three
\* vertical pairs.
right_eye == <<<<33, 133>>, <<160, 144>>, <<159, 145>>, <<158, 153>>>>
left_eye == <<<<263, 362>>, <<387, 373>>, <<386, 374>>, <<385, 380>>>>
mouth == <<<<61, 291>>, <<39, 181>>, <<0, 17>>, <<269, 405>>>>

\* (((p1[:2] - p2[:2])**2).sum())**0.5
distanceWithDepth(p1, p2) ==
    RSqrt(Rat((p1[1] - p2[1]) * (p1[1] - p2[1])
              + (p1[2] - p2[2]) * (p1[2] - p2[2])
              + (p1[3] - p2[3]) * (p1[3] - p2[3]), 1))

distance(p1, p2) ==
    RSqrt(Rat((p1[1] - p2[1]) * (p1[1] - p2[1])
              + (p1[2] - p2[2]) * (p1[2] - p2[2]), 1))

\* (N1 + N2 + N3) / (3 * D)
eye_aspect_ratio(landmarks, eye) ==
    LET N1 == distance(landmarks[eye[2][1]], landmarks[eye[2][2]])
        N2 == distance(landmarks[eye[3][1]], landmarks[eye[3][2]])
        N3 == distance(landmarks[eye[4][1]], landmarks[eye[4][2]])
        D == distance(landmarks[eye[1][1]], landmarks[eye[1][2]])
    IN  RDiv(RAdd(RAdd(N1, N2), N3), RMul(Rat(3, 1), D))

eye_feature(landmarks) ==
    RDiv(RAdd(eye_aspect_ratio(landmarks, left_eye),
              eye_aspect_ratio(landmarks, right_eye)), Rat(2, 1))

mouth_feature(landmarks) ==
    LET N1 == distance(landmarks[mouth[2][1]], landmarks[mouth[2][2]])
        N2 == distance(landmarks[mouth[3][1]], landmarks[mouth[3][2]])
        N3 == distance(landmarks[mouth[4][1]], landmarks[mouth[4][2]])
        D == distance(landmarks[mouth[1][1]], landmarks[mouth[1][2]])
    IN  RDiv(RAdd(RAdd(N1, N2), N3), RMul(Rat(3, 1), D))

\* ear, mar and puc of a frame with landmarks (lines 76-78).
FrameOf(image) ==
    <<eye_feature(image.landmarks), mouth_feature(image.landmarks), image.puc>>

LandmarkIndices ==
    {p[k] : p \in {right_eye[i] : i \in 1..4} \cup {left_eye[i] : i \in 1..4}
                      \cup {mouth[i] : i \in 1..4}, k \in 1..2}

\* The landmark set in which the second point of every pair lies at the
\* given offset from the first: d[g] for the horizontal pair of group g
\* (1 right eye, 2 left eye, 3 mouth), n[g] for its first vertical pair,
\* <<0, 3>> and <<0, 1>> for the other two; the second points lie z deeper.
LandmarksOf(d, n, z) ==
    LET groups == <<right_eye, left_eye, mouth>>
        offset(g, i) == IF i = 1 THEN d[g]
                        ELSE IF i = 2 THEN n[g]
                        ELSE IF i = 3 THEN <<0, 3>> ELSE <<0, 1>>
        first(a) == <<a % 7, a % 5, 0>>
        point(a) ==
            IF \E g \in 1..3, i \in 1..4 : groups[g][i][1] = a
            THEN first(a)
            ELSE LET gi == CHOOSE gi \in (1..3) \X (1..4) :
                               groups[gi[1]][gi[2]][2] = a
                     b == first(groups[gi[1]][gi[2]][1])
                     o == offset(gi[1], gi[2])
                 IN  <<b[1] + o[1], b[2] + o[2], z>>
    IN  [a \in LandmarkIndices |-> point(a)]

HorizontalOffsets == {<<6, 8>>, <<8, 0>>}
VerticalOffsets == {<<0, 2>>, <<3, 4>>}

LandmarkInputs ==
    {[landmarks |-> LandmarksOf(d, n, z), puc |-> Rat(2, 5)] :
        d \in [1..3 -> HorizontalOffsets], n \in [1..3 -> VerticalOffsets],
        z \in {0, MaxDepth}}

\* run_face_mp on a frame in which the detector found the landmarks.
RunFaceLandmarks ==
    /\ face_result = <<>>
    /\ face_result' = RunFaceMp(FrameOf(face_image))
    /\ UNCHANGED face_image
    /\ UNCHANGED <<inferVars, calibVars, classVars, threadVars, lateVars>>
    /\ UNCHANGED <<weatherVars, mfVars, fuzzyVars>>

InitLandmarkSpec ==
    /\ OldIdle
    /\ WeatherIdle
    /\ MfIdle
    /\ FuzzyIdle
    /\ face_image \in LandmarkInputs
    /\ face_result = <<>>

NextLandmark == RunFaceLandmarks

SpecLandmark == InitLandmarkSpec /\ [][NextLandmark]_vars

\* The distance of two landmarks in the image plane.
PlanarDistance(l, pair) ==
    RSqrt(Rat((l[pair[1]][1] - l[pair[2]][1]) * (l[pair[1]][1] - l[pair[2]][1])
              + (l[pair[1]][2] - l[pair[2]][2]) * (l[pair[1]][2] - l[pair[2]][2]),
              1))

AspectRatio(l, part) ==
    RDiv(RAdd(RAdd(PlanarDistance(l, part[2]), PlanarDistance(l, part[3])),
              PlanarDistance(l, part[4])),
         RMul(Rat(3, 1), PlanarDistance(l, part[1])))

\* C21: the aspect ratio of an eye and of the mouth is (N1+N2+N3)/(3*D)
\* over the planar distances of its vertical pairs and its horizontal
\* pair (z plays no part); EAR is the mean of the two eye ratios, MAR the
\* mouth ratio and MOE = MAR / EAR of the same frame.
C21_AspectRatios ==
    face_result # <<>>
        => LET l == face_image.landmarks
           IN  /\ face_result[1]
                     = RDiv(RAdd(AspectRatio(l, left_eye),
                                 AspectRatio(l, right_eye)), Rat(2, 1))
               /\ face_result[2] = AspectRatio(l, mouth)
               /\ face_result[4] = RDiv(face_result[2], face_result[1])
               /\ \A other \in LandmarkInputs :
                     (\A a \in LandmarkIndices, k \in 1..2 :
                          other.landmarks[a][k] = l[a][k])
                        => /\ eye_feature(other.landmarks) = face_result[1]
                           /\ mouth_feature(other.landmarks) = face_result[2]

\* The features of a landmark set with points at different depths have been
\* computed: the right eye is 10 wide with vertical distances 5, 3 and 1.
C21_Witness ==
    /\ face_result # <<>>
    /\ face_image.landmarks[133][3] = MaxDepth
    /\ AspectRatio(face_image.landmarks, right_eye) = Rat(9, 30)
    /\ AspectRatio(face_image.landmarks, left_eye) = Rat(6, 24)
    /\ face_result[1] = Rat(11, 40)

----------------------------------------------------------------------------
(* Camera.get_frame                                                        *)

MaxReads == 4   \* get_frame calls in one behaviour

\* An image: where its pixels come from and what was done to it.
Image(pixels, resized, rgb) == [pixels |-> pixels, resized |-> resized, rgb |-> rgb]

\* cv2.VideoCapture.read(): (True, frame), or (False, None) when no frame
\* could be grabbed.
None == Image("None", FALSE, FALSE)

Reads == {[success |-> TRUE, image |-> Image("camera", FALSE, FALSE)],
          [success |-> FALSE, image |-> None]}

\* __init__: both are made in the size the frames are resized to.
black_image(c) == Image("black", c.resize, FALSE)
fake_frame(c) == Image("fake", TRUE, TRUE)

\* cv2.resize raises cv2.error on None; the check of success comes after it.
GetFrame(c, rd) ==
    IF c.fake THEN [kind |-> "returned", image |-> fake_frame(c)]
    ELSE IF c.resize /\ rd.image = None
    THEN [kind |-> "raised", image |-> None]
    ELSE LET image == IF c.resize THEN [rd.image EXCEPT !.resized = TRUE]
                                  ELSE rd.image
         IN  IF ~rd.success
             THEN [kind |-> "returned", image |-> black_image(c)]
             ELSE [kind |-> "returned",
                   image |-> IF c.is_rgb THEN [image EXCEPT !.rgb = TRUE]
                                         ELSE image]

\* One call of get_frame; camera.read() is called unless the camera is fake.
CameraGetFrame ==
    /\ Len(cam_frame) < MaxReads
    /\ \E rd \in IF cam.fake THEN {cam_read} ELSE Reads :
          /\ cam_read' = rd
          /\ cam_frame' = Append(cam_frame, [read |-> rd, out |-> GetFrame(cam, rd)])
    /\ UNCHANGED <<cam, gpsVars>>
    /\ UNCHANGED <<inferVars, calibVars, classVars, threadVars>>
    /\ UNCHANGED <<faceVars, weatherVars, mfVars, fuzzyVars>>

InitCameraSpec ==
    /\ InferIdle /\ CalibIdle /\ ClassIdle /\ ThreadIdle
    /\ FaceIdle /\ WeatherIdle /\ MfIdle /\ FuzzyIdle
    /\ GpsIdle
    /\ cam \in [fake : BOOLEAN, resize : BOOLEAN, is_rgb : BOOLEAN]
    /\ cam_read = [success |-> TRUE, image |-> Image("camera", FALSE, FALSE)]
    /\ cam_frame = <<>>

NextCamera == CameraGetFrame

SpecCamera == InitCameraSpec /\ [][NextCamera]_vars

\* C22: when the camera is not fake and the capture is unsuccessful,
\* get_frame returns the black image and raises nothing, whatever resize
\* and rgb are.
C22_BlackImageOnFailedCapture ==
    \A i \in 1..Len(cam_frame) :
        (~cam.fake /\ ~cam_frame[i].read.success)
            => /\ cam_frame[i].out.kind = "returned"
               /\ cam_frame[i].out.image = black_image(cam)

----------------------------------------------------------------------------
(* CameraWidget.update_frame / emit_frames and the batches they deliver    *)

\* Batch number k of the capture: frames 200(k-1)+1 .. 200k in order.
BatchOf(k) == [i \in 1..200 |-> 200 * (k - 1) + i]

\* C23: after any sequence of update_frame calls frames_collected has been
\* emitted once for every 200 frames appended, emission k carried frames
\* 200(k-1)+1 .. 200k in capture order, and the buffer holds the fewer than
\* 200 frames appended since.
C23_OneEmissionPer200Frames ==
    /\ Len(delivered) = n_captured \div 200
    /\ \A k \in 1..Len(delivered) : delivered[k] = BatchOf(k)
    /\ Len(frame_buffer) < 200
    /\ frame_buffer = [i \in 1..(n_captured % 200) |->
                           200 * Len(delivered) + i]

\* The second batch has been emitted and a frame appended after it.
C23_Witness ==
    /\ n_captured = 401
    /\ Len(delivered) = 2
    /\ delivered[2][200] = 400
    /\ frame_buffer = <<401>>

\* C28: a delivered batch stays the 200 frames it held at emission:
\* collected_frames is the latest batch from its emission on, through the
\* clear of the buffer and later appends, and the frames a running
\* classification works on are one whole batch.
C28_DeliveredBatchStays ==
    /\ Len(delivered) > 0
          => ListOf(collected_frames) = BatchOf(Len(delivered))
    /\ (\E i \in 1..Len(runs) : runs[i] \in {"extract", "classify"})
          => \E k \in 1..Len(delivered) : ListOf(thread_frames) = BatchOf(k)

\* The thread is still working on the first batch after the buffer was
\* cleared, refilled, emitted again and appended to.
C28_Witness ==
    /\ Len(runs) = 1
    /\ runs[1] = "extract"
    /\ ListOf(thread_frames) = BatchOf(1)
    /\ ListOf(collected_frames) = BatchOf(2)
    /\ Len(frame_buffer) = 1

----------------------------------------------------------------------------
(* GPSSimulator.get_next_reading and the speed argument of                 *)
(* MainWindows._fuzzy_inference                                            *)

SpeedStepDen == 2   \* random.uniform(-1, 1) is drawn from multiples of 1/SpeedStepDen

initial_speed == Rat(40, 1)

\* Values random.uniform(-1, 1) can return.
SpeedSteps == {Rat(k, SpeedStepDen) : k \in (-SpeedStepDen)..(SpeedStepDen - 1)}

\* self.speed += random.uniform(-1, 1); self.speed = max(0, min(self.speed, 150))
NextSpeed(speed, step) == RMax(Zero, RMin(RAdd(speed, step), Rat(150, 1)))

\* update_map and update_weather: the map timer or the weather timer takes
\* a reading.
UpdateMap ==
    /\ Fires("map") \/ Fires("weather")
    /\ \E step \in SpeedSteps : gps_speed' = NextSpeed(gps_speed, step)
    /\ UNCHANGED <<passed_speed, cameraVars>>
    /\ UNCHANGED <<inferVars, calibVars, classVars, threadVars>>
    /\ UNCHANGED <<faceVars, weatherVars, mfVars, fuzzyVars>>

\* _fuzzy_inference: the fuzzy timer takes a reading and passes its speed to
\* the fuzzy engine.
FuzzyInferenceSpeed ==
    /\ Fires("fuzzy")
    /\ \E step \in SpeedSteps :
          /\ gps_speed' = NextSpeed(gps_speed, step)
          /\ passed_speed' = <<NextSpeed(gps_speed, step)>>
    /\ UNCHANGED cameraVars
    /\ UNCHANGED <<inferVars, calibVars, classVars, threadVars>>
    /\ UNCHANGED <<faceVars, weatherVars, mfVars, fuzzyVars>>

InitGpsSpec ==
    /\ InferIdle /\ CalibIdle /\ ClassIdle /\ ThreadIdle
    /\ FaceIdle /\ WeatherIdle /\ MfIdle /\ FuzzyIdle
    /\ CameraIdle
    /\ gps_speed = initial_speed
    /\ passed_speed = <<>>

NextGps == UpdateMap \/ FuzzyInferenceSpeed

SpecGps == InitGpsSpec /\ [][NextGps]_vars

\* C24: after any sequence of readings from the default initial speed the
\* simulated speed is within 0 to 60 km/h.
C24_SpeedWithin60 ==
    /\ RLe(Zero, gps_speed)
    /\ RLe(gps_speed, Rat(60, 1))

\* C30: every speed _fuzzy_inference passes to the fuzzy engine lies in the
\* universe of discourse of speed, [0, 120].
C30_PassedSpeedInUniverse ==
    passed_speed # <<>>
        => /\ RLe(Rat(lv_speed.universe[1], 1), passed_speed[1])
           /\ RLe(passed_speed[1], Rat(lv_speed.universe[2], 1))

----------------------------------------------------------------------------
(* The first snapshot of a window                                          *)

\* C25: in every call of infer whose first frame has a face the first
\* snapshot of the window is that frame's normalized feature vector; the
\* first valid frame is not blended with an initial state.
C25_FirstSnapshotIsNormalized ==
    (pc_infer \in {"loop", "returned"} /\ Len(input_data) >= 1
        /\ images[1] # NoLandmarks)
        => input_data[1] = NormalizeAll(RunFaceMp(images[1]), stats)

----------------------------------------------------------------------------
(* The standard deviations infer divides by                                *)

\* C26: the stats calibrate returns from a batch with at least one valid
\* frame (a single valid frame and identical frames included) have no
\* standard deviation equal to zero, so Normalize never divides by zero.
C26_StdNonZero ==
    (pc_calib = "returned" /\ \E k \in 1..Len(batch) : IsFace(batch[k]))
        => \A i \in 1..4 :
              /\ calib_stats[i][2] # Zero
              /\ ~IsInf(Normalize(RunFaceMp(FaceA)[i], calib_stats[i]))
              /\ ~IsNaN(Normalize(RunFaceMp(FaceA)[i], calib_stats[i]))

----------------------------------------------------------------------------
(* FacialDrowsiness.get_classification: the sub-windows of the window      *)

MaxWindow == 30   \* longest window handed to get_classification

\* The Python slice data[a:b]; b = -1 stands for data[a:].
Slice(data, a, b) ==
    LET last == IF b = -1 \/ b > Len(data) THEN Len(data) ELSE b
    IN  IF a >= last THEN <<>> ELSE SubSeq(data, a + 1, last)

\* model_input as the six appends build it (lines 110-116).
SubWindowsClosedLast(data) ==
    <<Slice(data, 0, 5), Slice(data, 3, 8), Slice(data, 6, 11),
      Slice(data, 9, 14), Slice(data, 12, 17), Slice(data, 15, 20)>>

SubWindows(data) ==
    <<Slice(data, 0, 5), Slice(data, 3, 8), Slice(data, 6, 11),
      Slice(data, 9, 14), Slice(data, 12, 17), Slice(data, 15, -1)>>

\* get_classification up to the conversion of model_input to a tensor.
GetClassification ==
    /\ model_input = NoMatrix
    /\ model_input' = [rows |-> SubWindows(input_data), width |-> 4]
    /\ UNCHANGED features
    /\ UNCHANGED <<pc_infer, images, stats, idx, feat, smoothed, input_data,
                   iref, entry_dirty>>
    /\ UNCHANGED <<calibVars, threadVars, restVars>>

InitWindowSpec ==
    /\ pc_infer = "idle"
    /\ images = <<>>
    /\ stats = StatsA
    /\ idx = 1
    /\ feat = <<>>
    /\ smoothed = <<Zero, Zero, Zero, Zero>>
    /\ input_data \in {FeatureMatrix(n, 4, seed).rows :
                           n \in 0..MaxWindow, seed \in 1..2}
    /\ iref = NoRef
    /\ entry_dirty = FALSE
    /\ CalibIdle /\ ThreadIdle /\ RestIdle
    /\ features = NoMatrix
    /\ model_input = NoMatrix

NextWindow == GetClassification

SpecWindow == InitWindowSpec /\ [][NextWindow]_vars

\* The rows (numbered from 0) of a window of L rows that sub-window i holds.
RowsOf(i, L) ==
    {r \in 0..(L - 1) : r >= 3 * (i - 1) /\ (i = 6 \/ r < 3 * (i - 1) + 5)}

\* C27: get_classification cuts the window into six sub-windows starting at
\* rows 0, 3, 6, 9, 12 and 15; for a non-empty window of L rows the six have
\* the same length exactly when L = 20 (then 5 rows each, neighbours
\* sharing 2 rows, every row in some sub-window), and unequal lengths for
\* every other L.
C27_SubWindows ==
    model_input # NoMatrix
        => LET L == Len(input_data)
               w == model_input.rows
               equal == \A i \in 1..6 : Len(w[i]) = Len(w[1])
           IN  /\ Len(w) = 6
               /\ \A i \in 1..6 :
                     /\ Len(w[i]) = Cardinality(RowsOf(i, L))
                     /\ \A r \in 1..Len(w[i]) :
                           w[i][r] = input_data[3 * (i - 1) + r]
               /\ L > 0 => (equal <=> L = 20)
               /\ L = 20
                     => /\ \A i \in 1..6 : Len(w[i]) = 5
                        /\ \A i \in 1..5 :
                              Cardinality(RowsOf(i, L) \cap RowsOf(i + 1, L)) = 2
                        /\ UNION {RowsOf(i, L) : i \in 1..6} = 0..(L - 1)

\* A window of 23 rows has been cut: five sub-windows of 5 rows and a last
\* one of 8.
C27_Witness ==
    /\ model_input # NoMatrix
    /\ Len(input_data) = 23
    /\ Len(model_input.rows[1]) = 5
    /\ Len(model_input.rows[6]) = 8

----------------------------------------------------------------------------
(* MainWindows.closeEvent                                                  *)

\* closeEvent up to video_classification_thread.wait(): the four stop()
\* calls, camera.release() and quit(); the GUI thread then blocks in wait().
CloseEvent ==
    /\ pc_close = "open"
    /\ timers' = timers \ {"map", "camera", "weather", "fuzzy"}
    /\ pc_close' = "waiting"
    /\ UNCHANGED <<frame_buffer, n_captured, collected_frames, thread_frames,
                   runs, tick_outcome, delivered>>
    /\ UNCHANGED <<inferVars, calibVars, classVars, restVars>>

\* wait() returns once run() has returned; event.accept().
CloseAccept ==
    /\ pc_close = "waiting"
    /\ runs = <<>>
    /\ pc_close' = "closed"
    /\ UNCHANGED <<frame_buffer, n_captured, collected_frames, thread_frames,
                   runs, tick_outcome, delivered, timers>>
    /\ UNCHANGED <<inferVars, calibVars, classVars, restVars>>

\* The window after the camera timer has fired 400 times: two batches have
\* been delivered and the buffer is empty.
InitCloseSpec ==
    /\ InferIdle /\ CalibIdle /\ ClassIdle /\ RestIdle
    /\ frame_buffer = <<>>
    /\ n_captured = 2 * frames_to_collect
    /\ delivered = <<[i \in 1..frames_to_collect |-> i],
                     [i \in 1..frames_to_collect |-> frames_to_collect + i]>>
    /\ collected_frames = SlotArgument(2)
    /\ thread_frames = OwnList
    /\ runs = <<>>
    /\ tick_outcome = "none"
    /\ timers = StartedTimers
    /\ pc_close = "open"

NextClose ==
    \/ UpdateFrame
    \/ VideoClassification
    \/ RunBegin
    \/ RunExtract
    \/ RunClassify
    \/ FuzzyInferenceSpeed
    \/ CloseEvent
    \/ CloseAccept

SpecClose == InitCloseSpec /\ [][NextClose]_vars

\* C29: once closeEvent has run every timer the window started is stopped
\* and the classification thread has finished, so that no classification
\* and no inference starts after close.
C29_AllStoppedAfterClose ==
    pc_close = "closed"
        => /\ timers = {}
           /\ runs = <<>>

====
